---- MODULE Spec2Model ----
(***************************************************************************)
(* A model of decorators.py: the log decorator and its closure "wrapper",  *)
(* the functions it is applied to, the class counter MyClass.count, the    *)
(* factory Person.from_birth_year and the Circle.radius property with its  *)
(* setter, deleter and the derived Circle.area.                            *)
(*                                                                         *)
(* Each part of the script is driven by its own next-state relation: the   *)
(* statements a caller can write against it, with arguments drawn from     *)
(* bounded sets.                                                           *)
(***************************************************************************)
EXTENDS Integers, Sequences, FiniteSets, TLC

VARIABLES
    wrappers,   \* the closures returned by log so far, each holding its "func"
    given,      \* the function each call of log was given, in call order
    out,        \* what the latest statement wrote to stdout, with the calls it made
    logCall,    \* the latest statement against log / a wrapper / a function
    logRes,     \* its outcome: the exception that reached the caller and the value returned
    classDict,  \* MyClass.__dict__ : the class attributes
    instances,  \* the __dict__ of every MyClass instance created so far
    calls,      \* how many times increment_count has been called
    myOp,       \* the latest statement against MyClass
    persons,    \* the Person instances created so far
    personOp,   \* the latest statement against Person
    circle,     \* c.__dict__ of the Circle c
    cOp,        \* the latest statement against c, with its outcome
    prevCircle, \* c.__dict__ as it was before the latest statement
    prevOp,     \* the statement against c before the latest one
    lastAccepted, \* the radius Circle(r) or the latest successful assignment
                \* stored, as <<r>>; <<>> once a "del c.radius" has succeeded since
    everDeleted \* a "del c.radius" has succeeded at some point

logVars    == <<wrappers, given, out, logCall, logRes>>
myVars     == <<classDict, instances, calls, myOp>>
personVars == <<persons, personOp>>
circleVars == <<circle, cOp, prevCircle, prevOp, lastAccepted, everDeleted>>
vars       == <<wrappers, given, out, logCall, logRes, classDict, instances, calls, myOp,
                persons, personOp, circle, cOp, prevCircle, prevOp, lastAccepted,
                everDeleted>>

(***************************************************************************)
(* Bounds of the model.                                                    *)
(***************************************************************************)
MaxArgs      == 2   \* arguments per call, positional and keyword together
MaxWrappers  == 2   \* calls of log
MaxCount     == 5   \* calls of increment_count
MaxInstances == 3   \* MyClass instances
MaxPersons   == 2   \* Person instances
YearSpan     == 2   \* birth years range over 1990 - YearSpan .. 1990 + YearSpan
MaxRadius    == 3   \* radius values range over -MaxRadius .. MaxRadius

(***************************************************************************)
(* Python values.                                                          *)
(***************************************************************************)
IntVal(n) == [t |-> "int", v |-> n]
StrVal(s) == [t |-> "str", s |-> s]
None      == [t |-> "None"]

NoExc == "none"

\* the argument values the script itself passes: 1, 2 and "Hello"
ArgVals == {IntVal(1), IntVal(2), StrVal("Hello")}

\* *args : any tuple of values
ArgTuples == UNION {[1..n -> ArgVals] : n \in 0..MaxArgs}

\* **kwargs : any part of the script's own example {'num1': 1, 'num2': 2}
ExampleKwargs == [num1 |-> IntVal(1), num2 |-> IntVal(2)]

KwDicts == {[n \in S |-> ExampleKwargs[n]] : S \in SUBSET DOMAIN ExampleKwargs}

\* the argument lists of a call
ArgLists ==
    {al \in ArgTuples \X KwDicts : Len(al[1]) + Cardinality(DOMAIN al[2]) <= MaxArgs}

SeqToSet(s) == {s[i] : i \in DOMAIN s}

(***************************************************************************)
(* The functions of the script: their parameters and bodies.               *)
(***************************************************************************)
Funcs == {"add", "example1"}

\* the named parameters of each def, in order
Params(f) ==
    CASE f = "add"      -> <<"num1", "num2">>
      [] f = "example1" -> <<>>

\* whether the def collects extra positional arguments in *args
HasVarArgs(f) == f = "example1"

\* Python's binding of a call f(*args, **kwargs) to f's parameters: the call
\* raises TypeError before the body runs unless every parameter gets exactly
\* one value and no argument is left over.
BindOk(f, args, kwargs) ==
    LET ps   == Params(f)
        npos == IF Len(args) < Len(ps) THEN Len(args) ELSE Len(ps)
    IN  /\ HasVarArgs(f) \/ Len(args) <= Len(ps)
        /\ DOMAIN kwargs \subseteq SeqToSet(ps)
        /\ \A i \in 1..npos : ps[i] \notin DOMAIN kwargs
        /\ \A i \in (npos + 1)..Len(ps) : ps[i] \in DOMAIN kwargs

BoundArg(f, args, kwargs, i) ==
    IF i <= Len(args) THEN args[i] ELSE kwargs[Params(f)[i]]

\* num1 + num2
PyAddOk(a, b) == a.t = b.t /\ a.t \in {"int", "str"}

PyAdd(a, b) == IF a.t = "int" THEN IntVal(a.v + b.v) ELSE StrVal(a.s \o b.s)

Outcome(e, r, o) == [exc |-> e, ret |-> r, out |-> o]

PrintEv(text, detail) == [e |-> "print", text |-> text, detail |-> detail]

CallEv(f, args, kwargs) == [e |-> "call", f |-> f, args |-> args, kwargs |-> kwargs]

\* def add(num1, num2): sum = num1 + num2; print(f"Sum = {sum}"); return sum
Add(num1, num2) ==
    IF PyAddOk(num1, num2)
    THEN Outcome(NoExc, PyAdd(num1, num2), <<PrintEv("Sum = ", <<PyAdd(num1, num2)>>)>>)
    ELSE Outcome("TypeError", None, <<>>)

\* def example1(*args): print("Executing Example 1")
Example1 == Outcome(NoExc, None, <<PrintEv("Executing Example 1", <<>>)>>)

\* The call f(*args, **kwargs): the call itself, then the body if the
\* arguments bind.
CallFunc(f, args, kwargs) ==
    LET body == CASE f = "add"      -> Add(BoundArg(f, args, kwargs, 1),
                                           BoundArg(f, args, kwargs, 2))
                  [] f = "example1" -> Example1
    IN  IF BindOk(f, args, kwargs)
        THEN Outcome(body.exc, body.ret, <<CallEv(f, args, kwargs)>> \o body.out)
        ELSE Outcome("TypeError", None, <<CallEv(f, args, kwargs)>>)

StartMsg == "Calling the wrapped function with arguments "

CompleteMsg == "Wrapped function execution complete!"

\* a wrapper that looks func up when it is called, and so finds the function
\* of the latest log call instead of its own
WrapperLateBound(w, args, kwargs) ==
    LET r == CallFunc(wrappers[Len(wrappers)].func, args, kwargs)
    IN  IF r.exc # NoExc
        THEN Outcome(r.exc, None, <<PrintEv(StartMsg, <<args, kwargs>>)>> \o r.out)
        ELSE Outcome(NoExc, None,
                     <<PrintEv(StartMsg, <<args, kwargs>>)>> \o r.out
                         \o <<PrintEv(CompleteMsg, <<>>)>>)

\* a wrapper that returns what func returned ("return func(...)")
WrapperReturns(w, args, kwargs) ==
    LET r == CallFunc(w.func, args, kwargs)
    IN  IF r.exc # NoExc
        THEN Outcome(r.exc, None, <<PrintEv(StartMsg, <<args, kwargs>>)>> \o r.out)
        ELSE Outcome(NoExc, r.ret,
                     <<PrintEv(StartMsg, <<args, kwargs>>)>> \o r.out
                         \o <<PrintEv(CompleteMsg, <<>>)>>)

\* a wrapper that catches what func raises and carries on
WrapperSwallows(w, args, kwargs) ==
    LET r == CallFunc(w.func, args, kwargs)
    IN  Outcome(NoExc, None,
                <<PrintEv(StartMsg, <<args, kwargs>>)>> \o r.out
                    \o <<PrintEv(CompleteMsg, <<>>)>>)

\* def wrapper(*args, **kwargs) of the closure w: print, func(*args, **kwargs),
\* print. An exception of func leaves the wrapper at the call; the wrapper has
\* no return statement.
Wrapper(w, args, kwargs) ==
    LET r == CallFunc(w.func, args, kwargs)
    IN  IF r.exc # NoExc
        THEN Outcome(r.exc, None, <<PrintEv(StartMsg, <<args, kwargs>>)>> \o r.out)
        ELSE Outcome(NoExc, None,
                     <<PrintEv(StartMsg, <<args, kwargs>>)>> \o r.out
                         \o <<PrintEv(CompleteMsg, <<>>)>>)

\* def log(func): defines wrapper closed over func and returns it
Closure(func) == [func |-> func]

LogCallRec(op, w, f, args, kwargs) ==
    [op |-> op, w |-> w, f |-> f, args |-> args, kwargs |-> kwargs]

LogInit ==
    /\ wrappers = <<>>
    /\ given = <<>>
    /\ out = <<>>
    /\ logCall = LogCallRec("init", 0, "none", <<>>, <<>>)
    /\ logRes = [exc |-> NoExc, ret |-> None]

\* w = log(f)
Log(f) ==
    /\ Len(wrappers) < MaxWrappers
    /\ wrappers' = Append(wrappers, Closure(f))
    /\ given' = Append(given, f)
    /\ out' = <<>>
    /\ logCall' = LogCallRec("log", Len(wrappers) + 1, f, <<>>, <<>>)
    /\ logRes' = [exc |-> NoExc, ret |-> None]
    /\ UNCHANGED <<myVars, personVars, circleVars>>

\* wrappers[i](*args, **kwargs), as in log_add(1, 2)
CallWrapper(i, args, kwargs) ==
    LET r == Wrapper(wrappers[i], args, kwargs)
    IN  /\ out' = r.out
        /\ logCall' = LogCallRec("wrapper", i, wrappers[i].func, args, kwargs)
        /\ logRes' = [exc |-> r.exc, ret |-> r.ret]
        /\ UNCHANGED <<wrappers, given>>
        /\ UNCHANGED <<myVars, personVars, circleVars>>

\* f(*args, **kwargs) called undecorated, as in example1()
CallDirect(f, args, kwargs) ==
    LET r == CallFunc(f, args, kwargs)
    IN  /\ out' = r.out
        /\ logCall' = LogCallRec("direct", 0, f, args, kwargs)
        /\ logRes' = [exc |-> r.exc, ret |-> r.ret]
        /\ UNCHANGED <<wrappers, given>>
        /\ UNCHANGED <<myVars, personVars, circleVars>>

LogNext ==
    \/ \E f \in Funcs : Log(f)
    \/ \E i \in DOMAIN wrappers, al \in ArgLists : CallWrapper(i, al[1], al[2])
    \/ \E f \in Funcs, al \in ArgLists : CallDirect(f, al[1], al[2])

(***************************************************************************)
(* class MyClass: the class attribute count and the classmethod            *)
(* increment_count.                                                        *)
(***************************************************************************)
\* what a statement can name: the class itself, or its i-th instance
TheClass == <<"MyClass">>

Instance(i) == <<"MyClass", i>>

Receivers == {TheClass} \cup {Instance(i) : i \in DOMAIN instances}

\* the __dict__ of an instance
DictOf(obj) == instances[obj[2]]

\* obj.name : the instance's own __dict__ first, then the class's
GetAttr(obj, name) ==
    IF obj # TheClass /\ name \in DOMAIN DictOf(obj)
    THEN DictOf(obj)[name]
    ELSE classDict[name]

\* obj.name = value, as the next state of (classDict, instances)
SetAttr(obj, name, value) ==
    IF obj = TheClass
    THEN /\ classDict' = [n \in DOMAIN classDict \cup {name} |->
                              IF n = name THEN value ELSE classDict[n]]
         /\ UNCHANGED instances
    ELSE /\ instances' = [instances EXCEPT ![obj[2]] =
                              [n \in DOMAIN DictOf(obj) \cup {name} |->
                                  IF n = name THEN value ELSE DictOf(obj)[n]]]
         /\ UNCHANGED classDict

\* a plain method: the first parameter is whatever the method was reached through
BoundSelf(recv) == recv

\* @classmethod binds cls to the class, whether the method is reached through
\* the class or through an instance of it
BoundCls(recv) == TheClass

MyOpRec(op, recv, ret) == [op |-> op, recv |-> recv, ret |-> ret]

MyInit ==
    /\ classDict = [count |-> 0]
    /\ instances = <<>>
    /\ calls = 0
    /\ myOp = MyOpRec("init", TheClass, 0)

\* MyClass()
NewInstance ==
    /\ Len(instances) < MaxInstances
    /\ instances' = Append(instances, <<>>)
    /\ myOp' = MyOpRec("new", TheClass, 0)
    /\ UNCHANGED <<classDict, calls>>
    /\ UNCHANGED <<logVars, personVars, circleVars>>

\* recv.increment_count() : cls.count += 1
IncrementCount(recv) ==
    /\ calls < MaxCount
    /\ SetAttr(BoundCls(recv), "count", GetAttr(BoundCls(recv), "count") + 1)
    /\ calls' = calls + 1
    /\ myOp' = MyOpRec("increment_count", recv, 0)
    /\ UNCHANGED <<logVars, personVars, circleVars>>

\* recv.count
ReadCount(recv) ==
    /\ myOp' = MyOpRec("read", recv, GetAttr(recv, "count"))
    /\ UNCHANGED <<classDict, instances, calls>>
    /\ UNCHANGED <<logVars, personVars, circleVars>>

MyNext ==
    \/ NewInstance
    \/ \E recv \in Receivers : IncrementCount(recv)
    \/ \E recv \in Receivers : ReadCount(recv)

(***************************************************************************)
(* class Person: the constructor and the factory from_birth_year.          *)
(***************************************************************************)
Names == {"Alice", "Bob"}

Ages == {25, 35}

BirthYears == (1990 - YearSpan)..(1990 + YearSpan)

current_year == 2025

\* Person.__init__(self, name, age)
PersonNew(name, age) == [name |-> name, age |-> age]

\* the subtraction the wrong way round
FromBirthYearReversed(name, birth_year) == PersonNew(name, birth_year - current_year)

\* Person.from_birth_year(name, birth_year), with cls = Person
FromBirthYear(name, birth_year) == PersonNew(name, current_year - birth_year)

PersonOpRec(op, name, arg) == [op |-> op, name |-> name, arg |-> arg]

PersonInit ==
    /\ persons = <<>>
    /\ personOp = PersonOpRec("init", "none", 0)

\* Person(name, age)
Construct(name, age) ==
    /\ Len(persons) < MaxPersons
    /\ persons' = Append(persons, PersonNew(name, age))
    /\ personOp' = PersonOpRec("Person", name, age)
    /\ UNCHANGED <<logVars, myVars, circleVars>>

\* Person.from_birth_year(name, birth_year)
Factory(name, birth_year) ==
    /\ Len(persons) < MaxPersons
    /\ persons' = Append(persons, FromBirthYear(name, birth_year))
    /\ personOp' = PersonOpRec("from_birth_year", name, birth_year)
    /\ UNCHANGED <<logVars, myVars, circleVars>>

PersonNext ==
    \/ \E name \in Names, age \in Ages : Construct(name, age)
    \/ \E name \in Names, y \in BirthYears : Factory(name, y)

(***************************************************************************)
(* class Circle: __init__, the property radius (getter, setter, deleter)   *)
(* and the derived property area.  Radii are integers; area is kept in     *)
(* hundredths, so that 3.14 * r ** 2 is the integer 314 * r ^ 2.           *)
(***************************************************************************)
RadiusVals == (0 - MaxRadius)..MaxRadius

PiHundredths == 314

HasRadius(d) == "_radius" \in DOMAIN d

\* the outcome of an accessor: the exception raised, the value returned (a
\* tuple of at most one value) and the instance's __dict__ afterwards
Result(e, r, d) == [exc |-> e, ret |-> r, dict |-> d]

\* Circle.__init__(self, radius): self._radius = radius
CircleNew(radius) == [n \in {"_radius"} |-> radius]

\* @property radius: return self._radius
Getter(d) ==
    IF HasRadius(d)
    THEN Result(NoExc, <<d["_radius"]>>, d)
    ELSE Result("AttributeError", <<>>, d)

\* a setter that also lets zero through (>= for >)
SetterNonNegative(d, value) ==
    IF value >= 0
    THEN Result(NoExc, <<>>, [n \in DOMAIN d \cup {"_radius"} |-> value])
    ELSE Result("ValueError", <<>>, d)

\* a setter that stores first and validates afterwards
SetterStoresFirst(d, value) ==
    IF value > 0
    THEN Result(NoExc, <<>>, [n \in DOMAIN d \cup {"_radius"} |-> value])
    ELSE Result("ValueError", <<>>, [n \in DOMAIN d \cup {"_radius"} |-> value])

\* @radius.setter: if value > 0: self._radius = value, else raise ValueError
Setter(d, value) ==
    IF value > 0
    THEN Result(NoExc, <<>>, [n \in DOMAIN d \cup {"_radius"} |-> value])
    ELSE Result("ValueError", <<>>, d)

\* a deleter that leaves the attribute in place
DeleterKeeps(d) ==
    IF HasRadius(d)
    THEN Result(NoExc, <<>>, d)
    ELSE Result("AttributeError", <<>>, d)

\* @radius.deleter: del self._radius
Deleter(d) ==
    IF HasRadius(d)
    THEN Result(NoExc, <<>>, [n \in DOMAIN d \ {"_radius"} |-> d[n]])
    ELSE Result("AttributeError", <<>>, d)

\* an area that doubles the radius instead of squaring it (* for **)
AreaDoubles(d) ==
    LET g == Getter(d)
    IN  IF g.exc # NoExc
        THEN g
        ELSE Result(NoExc, <<PiHundredths * g.ret[1] * 2>>, g.dict)

\* @property area: return 3.14 * self.radius ** 2
Area(d) ==
    LET g == Getter(d)
    IN  IF g.exc # NoExc
        THEN g
        ELSE Result(NoExc, <<PiHundredths * g.ret[1] ^ 2>>, g.dict)

COpRec(op, arg, r) == [op |-> op, arg |-> arg, exc |-> r.exc, ret |-> r.ret]

\* c = Circle(r)
CircleInitWith(r) ==
    /\ circle = CircleNew(r)
    /\ prevCircle = <<>>
    /\ cOp = COpRec("Circle", r, Result(NoExc, <<>>, CircleNew(r)))
    /\ prevOp = COpRec("none", 0, Result(NoExc, <<>>, <<>>))
    /\ lastAccepted = <<r>>
    /\ everDeleted = FALSE

\* c = Circle(r) for any r
CircleInit == \E r \in RadiusVals : CircleInitWith(r)

\* c = Circle(5), the script's own construction
CircleInitScript == CircleInitWith(5)

\* what every statement against c records
Recorded(op, arg, r) ==
    /\ circle' = r.dict
    /\ prevCircle' = circle
    /\ cOp' = COpRec(op, arg, r)
    /\ prevOp' = cOp
    /\ UNCHANGED <<logVars, myVars, personVars>>

\* c.radius = value
SetRadius(value) ==
    LET r == Setter(circle, value)
    IN  /\ Recorded("set", value, r)
        /\ lastAccepted' = IF r.exc = NoExc THEN <<value>> ELSE lastAccepted
        /\ UNCHANGED everDeleted

\* c.radius
GetRadius ==
    LET r == Getter(circle)
    IN  /\ Recorded("get", 0, r)
        /\ UNCHANGED <<lastAccepted, everDeleted>>

\* del c.radius
DelRadius ==
    LET r == Deleter(circle)
    IN  /\ Recorded("del", 0, r)
        /\ lastAccepted' = IF r.exc = NoExc THEN <<>> ELSE lastAccepted
        /\ everDeleted' = (everDeleted \/ r.exc = NoExc)

\* c.area
GetArea ==
    LET r == Area(circle)
    IN  /\ Recorded("area", 0, r)
        /\ UNCHANGED <<lastAccepted, everDeleted>>

CircleNext ==
    \/ \E value \in RadiusVals : SetRadius(value)
    \/ GetRadius
    \/ DelRadius
    \/ GetArea

(***************************************************************************)
(* The specifications: each part of the script under the statements a      *)
(* caller can write against it, and all of them together.                  *)
(***************************************************************************)
Init == LogInit /\ MyInit /\ PersonInit /\ CircleInit

InitScript == LogInit /\ MyInit /\ PersonInit /\ CircleInitScript

Next == LogNext \/ MyNext \/ PersonNext \/ CircleNext

Spec == Init /\ [][Next]_vars

SpecLog == InitScript /\ [][LogNext]_vars

SpecMyClass == InitScript /\ [][MyNext]_vars

SpecPerson == InitScript /\ [][PersonNext]_vars

SpecCircle == Init /\ [][CircleNext]_vars

(***************************************************************************)
(* The properties checked.                                                 *)
(***************************************************************************)

(***************************************************************************)
(* The log decorator                                                       *)
(***************************************************************************)
CallEvents(o) == {i \in DOMAIN o : o[i].e = "call"}

StartEv == PrintEv(StartMsg, <<logCall.args, logCall.kwargs>>)

CompleteEv == PrintEv(CompleteMsg, <<>>)

\* what the function the called wrapper was created for does with the
\* arguments the wrapper received
Wrapped == CallFunc(given[logCall.w], logCall.args, logCall.kwargs)

\* the start message, one call of the wrapper's own function with the
\* wrapper's arguments, and the completion message last
FullTrace ==
    /\ Len(out) >= 3
    /\ out[1] = StartEv
    /\ out[2] = CallEv(given[logCall.w], logCall.args, logCall.kwargs)
    /\ CallEvents(out) = {2}
    /\ out[Len(out)] = CompleteEv
    /\ \A i \in 2..(Len(out) - 1) : out[i] # CompleteEv /\ out[i] # StartEv

AddOneTwo ==
    /\ logCall.args = <<IntVal(1), IntVal(2)>>
    /\ DOMAIN logCall.kwargs = {}

\* C5: a call of a wrapper returns None whatever its function returns:
\* log(add)(1, 2) returns None although add ran, printed its sum 3 and
\* add(1, 2) itself returns 3.
C5_ReturnsNone ==
    /\ logCall.op = "wrapper" => logRes.ret = None
    /\ (logCall.op = "wrapper" /\ given[logCall.w] = "add" /\ AddOneTwo) =>
           /\ logRes.exc = NoExc
           /\ out[3] = PrintEv("Sum = ", <<IntVal(3)>>)
           /\ Wrapped.ret = IntVal(3)
    /\ (logCall.op = "direct" /\ logCall.f = "add" /\ AddOneTwo) =>
           /\ logRes.exc = NoExc
           /\ logRes.ret = IntVal(3)

\* log(add)(1, 2)
C5_Witness ==
    /\ logCall.op = "wrapper"
    /\ given[logCall.w] = "add"
    /\ AddOneTwo
    /\ logRes.ret = None
    /\ logRes.exc = NoExc
    /\ Wrapped.ret = IntVal(3)

\* C6: when the wrapped function raises, the wrapper has printed the start
\* message and called the function exactly once, has not printed the
\* completion message, and the same error reaches the wrapper's caller.
C6_ErrorPropagates ==
    (logCall.op = "wrapper" /\ Wrapped.exc # NoExc) =>
        /\ out[1] = StartEv
        /\ CallEvents(out) = {2}
        /\ out[2] = CallEv(given[logCall.w], logCall.args, logCall.kwargs)
        /\ \A i \in DOMAIN out : out[i] # CompleteEv
        /\ logRes.exc = Wrapped.exc

\* log(add)(1, "Hello"): the body of add raises TypeError
C6_Witness ==
    /\ logCall.op = "wrapper"
    /\ given[logCall.w] = "add"
    /\ logCall.args = <<IntVal(1), StrVal("Hello")>>
    /\ logRes.exc = "TypeError"
    /\ Len(out) = 2

(***************************************************************************)
(* Person.from_birth_year                                                  *)
(***************************************************************************)
LastPerson == persons[Len(persons)]

\* C7: Person.from_birth_year(name, y) returns a Person with the given name
\* and age 2025 - y, the same as Person(name, 2025 - y); birth year 1990
\* gives age 35; whatever was constructed before.
C7_FromBirthYear ==
    personOp.op = "from_birth_year" =>
        /\ LastPerson.name = personOp.name
        /\ LastPerson.age = 2025 - personOp.arg
        /\ LastPerson = PersonNew(personOp.name, 2025 - personOp.arg)
        /\ personOp.arg = 1990 => LastPerson.age = 35

\* Person.from_birth_year("Bob", 1990) after an earlier construction
C7_Witness ==
    /\ personOp.op = "from_birth_year"
    /\ personOp.name = "Bob"
    /\ personOp.arg = 1990
    /\ Len(persons) = 2
    /\ LastPerson.age = 35

(***************************************************************************)
(* MyClass.count                                                           *)
(***************************************************************************)

\* C8: MyClass.count starts at 0 and is the number of increment_count calls
\* made so far, through the class or through an instance; MyClass and every
\* instance read that same value.
C8_SharedCount ==
    /\ classDict["count"] = calls
    /\ myOp.op = "init" => classDict["count"] = 0
    /\ \A recv \in Receivers : GetAttr(recv, "count") = calls
    /\ myOp.op = "read" => myOp.ret = calls

\* two increments, the latest through an instance; a second instance exists
C8_Witness ==
    /\ myOp.op = "increment_count"
    /\ myOp.recv = Instance(1)
    /\ calls = 2
    /\ Len(instances) = 2
    /\ GetAttr(Instance(2), "count") = 2

(***************************************************************************)
(* Circle.radius and Circle.area                                           *)
(***************************************************************************)

\* C1: assigning v to c.radius either stores it or raises: for every v > 0
\* the assignment succeeds, the instance holds v and a read of radius that
\* follows returns v; for every v <= 0 (0 included) it raises ValueError and
\* the instance is what it was before.
C1_SetterStoresOrRaises ==
    /\ (cOp.op = "set" /\ cOp.arg > 0) =>
           /\ cOp.exc = NoExc
           /\ HasRadius(circle)
           /\ circle["_radius"] = cOp.arg
    /\ (cOp.op = "set" /\ cOp.arg <= 0) =>
           /\ cOp.exc = "ValueError"
           /\ circle = prevCircle
    /\ (prevOp.op = "set" /\ prevOp.exc = NoExc /\ cOp.op = "get") =>
           /\ cOp.exc = NoExc
           /\ cOp.ret = <<prevOp.arg>>

\* an accepted assignment followed by a read
C1_Witness ==
    /\ prevOp.op = "set"
    /\ prevOp.arg > 0
    /\ prevOp.exc = NoExc
    /\ cOp.op = "get"
    /\ cOp.ret = <<prevOp.arg>>

\* C2: whenever the Circle holds a radius, after construction with any r and
\* after any assignments and deletions, the stored radius is greater than 0.
C2_RadiusPositive == HasRadius(circle) => circle["_radius"] > 0

\* C3: a rejected assignment raises at once and changes nothing: the stored
\* radius, and so the area, are what they were before the attempt, no other
\* value is stored in its place, and a positive assignment right after the
\* rejection succeeds.
C3_RejectedChangesNothing ==
    /\ (cOp.op = "set" /\ cOp.arg <= 0) =>
           /\ cOp.exc = "ValueError"
           /\ cOp.ret = <<>>
           /\ circle = prevCircle
           /\ Getter(circle).ret = Getter(prevCircle).ret
           /\ Area(circle).ret = Area(prevCircle).ret
    /\ (prevOp.op = "set" /\ prevOp.exc = "ValueError"
            /\ cOp.op = "set" /\ cOp.arg > 0) =>
           /\ cOp.exc = NoExc
           /\ Getter(circle).ret = <<cOp.arg>>

\* a rejected assignment followed by an accepted one
C3_Witness ==
    /\ prevOp.op = "set"
    /\ prevOp.arg <= 0
    /\ prevOp.exc = "ValueError"
    /\ cOp.op = "set"
    /\ cOp.exc = NoExc
    /\ HasRadius(circle)

\* "del c.radius" has succeeded and no assignment has been accepted since
DelPending == everDeleted /\ lastAccepted = <<>>

C10_AreaDerived ==
    /\ (cOp.op = "area" /\ lastAccepted # <<>>) =>
           /\ cOp.exc = NoExc
           /\ cOp.ret = <<314 * lastAccepted[1] * lastAccepted[1]>>
    /\ cOp.op \in {"get", "area"} => circle = prevCircle
    /\ Area(Setter(CircleNew(5), 10).dict).ret = <<31400>>

\* area read after a rejected assignment that followed an accepted radius
C10_Witness ==
    /\ cOp.op = "area"
    /\ cOp.exc = NoExc
    /\ prevOp.op = "set"
    /\ prevOp.exc = "ValueError"
    /\ lastAccepted # <<>>
    /\ cOp.ret = <<314 * lastAccepted[1] * lastAccepted[1]>>

====
